---------------------------- MODULE Spec2Model ----------------------------
(***************************************************************************)
(* rigtorp::MPMCQueue<T> (src/MPMCQueue.h): a bounded multi-producer       *)
(* multi-consumer queue over a ring of slots.  Every atomic access of      *)
(* emplace, try_emplace, pop and try_pop is one step of the calling        *)
(* thread; the element construction, the move-out and the destruction are  *)
(* steps of their own.  A call's invocation is its first atomic access and *)
(* its return is its last one.  The atomic accesses are taken in one total *)
(* order; the spin loops of emplace and pop are steps that wait for the    *)
(* slot's turn.  head_ and tail_ are unbounded, each specification bounds  *)
(* the number of calls.                                                    *)
(***************************************************************************)
EXTENDS Integers, Sequences, FiniteSets

(* Bounds of the model. *)
NumThreads == 2
MaxCapacity == 2
MaxOps == 4      \* calls in all, under Spec and OrderSpec
MaxTryOps == 5   \* calls in all, under TrySpec
MaxSeqOps == 6   \* calls in all, under SeqSpec
MaxPairs == 3    \* blocking enqueues, and blocking dequeues, under LiveSpec
MaxFrameOps == 4 \* calls in all, under FrameSpec
MaxLifeOps == 3  \* calls in all between constructor and destructor, under LifeSpec

Threads == 1..NumThreads
OpBounds == {MaxOps, MaxTryOps, MaxSeqOps, MaxPairs, MaxFrameOps, MaxLifeOps}
MaxCalls == CHOOSE m \in OpBounds : \A n \in OpBounds : n <= m
Tickets == 0..(MaxCalls - 1)

VARIABLES
  capacity_,   \* const size_t capacity_
  head_,       \* std::atomic<size_t> head_
  tail_,       \* std::atomic<size_t> tail_
  slotTurn,    \* slots_[i].turn
  storage,     \* slots_[i].storage: the live element, 0 when none is constructed
  pc,          \* position of each thread in its call ("idle" between calls)
  op,          \* the call a thread is in, or was last in
  tk,          \* the local head / tail of the call (its ticket)
  arg,         \* the value a call is enqueuing
  out,         \* the caller's T &v of pop / try_pop
  ret,         \* what the thread's last call returned
  nOps,        \* calls invoked so far; call number n enqueues the value n
  produced,    \* produced[k+1]: value passed to the enqueue that claimed head ticket k
  consumed,    \* consumed[k]: value returned by the dequeue that claimed tail ticket k, -1 until it returns
  enqueues,    \* turn stores to 2L+1 performed
  dequeues,    \* turn stores to 2L+2 performed
  enqClock,    \* number of enqueues that have returned after claiming a ticket
  deqClock,    \* number of dequeues that have returned after claiming a ticket
  inv,         \* the clock of its kind at the invocation of the call a thread is in
  enqInv, enqRet, \* clock at invocation / after return of the enqueue of each head ticket
  deqInv, deqRet, \* clock at invocation / after return of the dequeue of each tail ticket
  obs,         \* what a try_ call has seen of the queue since its invocation
  ref,         \* a reference bounded FIFO: its elements, and its answer to the last call
               \* (return value, the caller's v afterwards, the calling thread)
  eff,         \* per thread: whether its try_ call has written anything, and the
               \* caller's v at the invocation
  life         \* the queue object: before its constructor, live, destroyed or never
               \* created; the capacity asked for; constructions and destructions
               \* of elements so far, and whether one hit a slot in the wrong state

progVars == <<capacity_, head_, tail_, slotTurn, storage>>
threadVars == <<pc, op, tk, arg, out, ret>>
histVars == <<nOps, produced, consumed, enqueues, dequeues>>
stampVars == <<enqClock, deqClock, inv, enqInv, enqRet, deqInv, deqRet>>
vars == <<progVars, threadVars, histVars, stampVars, obs, ref, eff, life>>

-----------------------------------------------------------------------------
(* Private helpers of the queue.  A definition named x_y, placed before x, *)
(* is x with a slip y; the properties below are probed with x replaced by  *)
(* it.                                                                     *)

idx(i) == i % capacity_

turn_wrong(i) == i \div (capacity_ + 1)
turn(i) == i \div capacity_

(* The turn a producer holding ticket h waits for, and the one it stores. *)
EmplaceTurn_odd(h) == turn(h) * 2 + 1
EmplaceTurn(h) == turn(h) * 2

EmplaceNextTurn(h) == turn(h) * 2 + 1

(* The turn a consumer holding ticket t waits for, and the one it stores. *)
PopTurn_even(t) == turn(t) * 2
PopTurn(t) == turn(t) * 2 + 1

PopNextTurn_stuck(t) == turn(t) * 2 + 1
PopNextTurn(t) == turn(t) * 2 + 2

Slots == 0..(capacity_ - 1)

(* auto &slot = slots_[idx(head)]; *)
EmplaceSlot(h) == idx(h)

(* auto &slot = slots_[idx(tail)]; *)
PopSlot_next(t) == idx(t + 1)
PopSlot(t) == idx(t)

(* new (&storage) T(std::forward<Args>(args)...): the element constructed  *)
(* from the arguments a.                                                   *)
Constructed_default(a) == 0
Constructed(a) == a

-----------------------------------------------------------------------------
(* What the history variables record. *)

NoObs == [ever |-> FALSE, always |-> FALSE, busy |-> FALSE]

(* The thread has claimed a ticket and has not yet stored its slot's turn. *)
ClaimedPcs == {"e_wait", "e_construct", "e_store", "te_construct", "te_store",
               "p_wait", "p_move", "p_destroy", "p_store",
               "tp_move", "tp_destroy", "tp_store"}

Full(turns) == \A i \in DOMAIN turns : turns[i] % 2 = 1
Empty(turns) == \A i \in DOMAIN turns : turns[i] % 2 = 0

(* Full for a try_emplace, empty for a try_pop: by the elements stored.    *)
Observed(o, turns) == IF o = "try_emplace" THEN Full(turns) ELSE Empty(turns)

(* The same by the tickets claimed: capacity or more enqueue tickets are   *)
(* ahead of the dequeue tickets, or none is.                               *)
ObservedClaimed(o, h, t) == IF o = "try_emplace" THEN h - t >= capacity_ ELSE h - t <= 0

OtherInFlight(u, pcs) == \E w \in Threads \ {u} : pcs[w] \in ClaimedPcs

(* obs[u] of a try_ call in progress: whether the queue was full (empty),  *)
(* by the elements stored or by the tickets claimed, in some state of the  *)
(* call so far; whether it was, by the elements stored, in all of them;    *)
(* and whether in some state it was full (empty) or another call was in    *)
(* flight.  Frozen at the return until the thread's next call.             *)
Track ==
  obs' = [u \in Threads |->
    IF op'[u] \notin {"try_emplace", "try_pop"} THEN NoObs
    ELSE IF pc[u] = "idle" /\ pc'[u] = "idle" THEN obs[u]
    ELSE LET c == Observed(op'[u], slotTurn')
             e == c \/ ObservedClaimed(op'[u], head_', tail_')
             b == c \/ OtherInFlight(u, pc')
         IN IF pc[u] = "idle"
            THEN [ever |-> e, always |-> c, busy |-> b]
            ELSE [ever |-> obs[u].ever \/ e,
                  always |-> obs[u].always /\ c,
                  busy |-> obs[u].busy \/ b]]

(* The real-time order of the calls, recorded at thread t's step: enqClock *)
(* ticks at every return of an enqueue that claimed a ticket and deqClock  *)
(* at every return of such a dequeue; a call that returned with stamp r    *)
(* precedes a call of the same kind invoked at stamp i iff r <= i.         *)
Stamp(t) ==
  LET invoked == pc[t] = "idle"
      enqClaimed == pc'[t] \in {"e_wait", "te_construct"}
      deqClaimed == pc'[t] \in {"p_wait", "tp_move"}
      enqReturned == pc[t] \in {"e_store", "te_store"}
      deqReturned == pc[t] \in {"p_store", "tp_store"}
      now == IF op'[t] \in {"emplace", "try_emplace"} THEN enqClock ELSE deqClock
  IN /\ inv' = IF invoked THEN [inv EXCEPT ![t] = now]
               ELSE IF pc'[t] = "idle" THEN [inv EXCEPT ![t] = 0] ELSE inv
     /\ enqClock' = IF enqReturned THEN enqClock + 1 ELSE enqClock
     /\ deqClock' = IF deqReturned THEN deqClock + 1 ELSE deqClock
     /\ enqInv' = IF enqClaimed
                  THEN [enqInv EXCEPT ![tk'[t]] = IF invoked THEN now ELSE inv[t]]
                  ELSE enqInv
     /\ deqInv' = IF deqClaimed
                  THEN [deqInv EXCEPT ![tk'[t]] = IF invoked THEN now ELSE inv[t]]
                  ELSE deqInv
     /\ enqRet' = IF enqReturned THEN [enqRet EXCEPT ![tk[t]] = enqClock + 1] ELSE enqRet
     /\ deqRet' = IF deqReturned THEN [deqRet EXCEPT ![tk[t]] = deqClock + 1] ELSE deqRet

-----------------------------------------------------------------------------
(* MPMCQueue(capacity): the state after construction. *)

NoEffect == [wrote |-> FALSE, out0 |-> 0]

(* What the try_ call of thread t has written so far: set by the step of   *)
(* thread t, by comparing the queue and the caller's v before and after    *)
(* the step.  Kept after a return of false, cleared otherwise.             *)
Effect(t) ==
  eff' = [eff EXCEPT ![t] =
    IF op'[t] \notin {"try_emplace", "try_pop"} \/ (pc'[t] = "idle" /\ ret'[t] # "false")
    THEN NoEffect
    ELSE [wrote |-> \/ (pc[t] # "idle" /\ eff[t].wrote)
                    \/ progVars' # progVars
                    \/ out'[t] # out[t],
          out0 |-> IF pc[t] = "idle" THEN out[t] ELSE eff[t].out0]]

Init ==
  /\ capacity_ \in 1..MaxCapacity
  /\ head_ = 0
  /\ tail_ = 0
  /\ slotTurn = [i \in 0..(capacity_ - 1) |-> 0]
  /\ storage = [i \in 0..(capacity_ - 1) |-> 0]
  /\ pc = [t \in Threads |-> "idle"]
  /\ op = [t \in Threads |-> "none"]
  /\ tk = [t \in Threads |-> 0]
  /\ arg = [t \in Threads |-> 0]
  /\ out = [t \in Threads |-> 0]
  /\ ret = [t \in Threads |-> "none"]
  /\ nOps = 0
  /\ produced = <<>>
  /\ consumed = [k \in Tickets |-> -1]
  /\ enqueues = 0
  /\ dequeues = 0
  /\ enqClock = 0
  /\ deqClock = 0
  /\ inv = [t \in Threads |-> 0]
  /\ enqInv = [k \in Tickets |-> 0]
  /\ enqRet = [k \in Tickets |-> 0]
  /\ deqInv = [k \in Tickets |-> 0]
  /\ deqRet = [k \in Tickets |-> 0]
  /\ obs = [t \in Threads |-> NoObs]
  /\ ref = [q |-> <<>>, ret |-> "none", out |-> 0, who |-> 0]
  /\ eff = [t \in Threads |-> NoEffect]
  /\ life = [state |-> "live", requested |-> capacity_,
             constructions |-> 0, destructions |-> 0, misuse |-> FALSE]

-----------------------------------------------------------------------------
(* emplace / push *)

(* auto const head = head_.fetch_add(1); *)
Emplace_FetchAdd(t) ==
  /\ pc[t] = "idle"
  /\ head_' = head_ + 1
  /\ pc' = [pc EXCEPT ![t] = "e_wait"]
  /\ op' = [op EXCEPT ![t] = "emplace"]
  /\ tk' = [tk EXCEPT ![t] = head_]
  /\ arg' = [arg EXCEPT ![t] = nOps + 1]
  /\ ret' = [ret EXCEPT ![t] = "none"]
  /\ nOps' = nOps + 1
  /\ produced' = Append(produced, nOps + 1)
  /\ UNCHANGED <<capacity_, tail_, slotTurn, storage, out>>
  /\ UNCHANGED <<consumed, enqueues, dequeues>>

(* while (turn(head) * 2 != slot.turn.load(acquire)) ; *)
Emplace_Wait(t) ==
  /\ pc[t] = "e_wait"
  /\ slotTurn[EmplaceSlot(tk[t])] = EmplaceTurn(tk[t])
  /\ pc' = [pc EXCEPT ![t] = "e_construct"]
  /\ UNCHANGED <<progVars, op, tk, arg, out, ret>>
  /\ UNCHANGED <<nOps, produced, consumed, enqueues, dequeues>>

(* slot.construct(std::forward<Args>(args)...); *)
Construct(t, from, to) ==
  /\ pc[t] = from
  /\ storage' = [storage EXCEPT ![EmplaceSlot(tk[t])] = Constructed(arg[t])]
  /\ pc' = [pc EXCEPT ![t] = to]
  /\ UNCHANGED <<capacity_, head_, tail_, slotTurn, op, tk, arg, out, ret>>
  /\ UNCHANGED <<nOps, produced, consumed, enqueues, dequeues>>

Emplace_Construct(t) == Construct(t, "e_construct", "e_store")

(* slot.turn.store(turn(head) * 2 + 1, release); and the return *)
StoreFull(t, from, result) ==
  /\ pc[t] = from
  /\ slotTurn' = [slotTurn EXCEPT ![EmplaceSlot(tk[t])] = EmplaceNextTurn(tk[t])]
  /\ pc' = [pc EXCEPT ![t] = "idle"]
  /\ ret' = [ret EXCEPT ![t] = result]
  /\ tk' = [tk EXCEPT ![t] = 0]
  /\ arg' = [arg EXCEPT ![t] = 0]
  /\ enqueues' = enqueues + 1
  /\ UNCHANGED <<capacity_, head_, tail_, storage, op, out>>
  /\ UNCHANGED <<nOps, produced, consumed, dequeues>>

Emplace_Store(t) == StoreFull(t, "e_store", "void")

-----------------------------------------------------------------------------
(* try_emplace / try_push *)

(* auto head = head_.load(acquire); *)
TryEmplace_LoadHead(t) ==
  /\ pc[t] = "idle"
  /\ pc' = [pc EXCEPT ![t] = "te_loop"]
  /\ op' = [op EXCEPT ![t] = "try_emplace"]
  /\ tk' = [tk EXCEPT ![t] = head_]
  /\ arg' = [arg EXCEPT ![t] = nOps + 1]
  /\ ret' = [ret EXCEPT ![t] = "none"]
  /\ nOps' = nOps + 1
  /\ UNCHANGED <<progVars, out>>
  /\ UNCHANGED <<produced, consumed, enqueues, dequeues>>

(* if (turn(head) * 2 == slot.turn.load(acquire)) ... else ... *)
TryEmplace_CheckTurn(t) ==
  /\ pc[t] = "te_loop"
  /\ pc' = [pc EXCEPT ![t] = IF slotTurn[EmplaceSlot(tk[t])] = EmplaceTurn(tk[t])
                             THEN "te_cas" ELSE "te_reload"]
  /\ UNCHANGED <<progVars, op, tk, arg, out, ret>>
  /\ UNCHANGED <<nOps, produced, consumed, enqueues, dequeues>>

(* The exchange done with compare_exchange_weak, which may fail although   *)
(* head_ still holds the expected value.                                   *)
TryEmplace_CAS_weak(t) ==
  /\ pc[t] = "te_cas"
  /\ \/ /\ head_ = tk[t]
        /\ head_' = tk[t] + 1
        /\ pc' = [pc EXCEPT ![t] = "te_construct"]
        /\ produced' = Append(produced, arg[t])
        /\ tk' = tk
     \/ /\ tk' = [tk EXCEPT ![t] = head_]
        /\ pc' = [pc EXCEPT ![t] = "te_loop"]
        /\ UNCHANGED <<head_, produced>>
  /\ UNCHANGED <<capacity_, tail_, slotTurn, storage, op, arg, out, ret>>
  /\ UNCHANGED <<nOps, consumed, enqueues, dequeues>>

(* if (head_.compare_exchange_strong(head, head + 1)): a failed exchange   *)
(* loads the current head_ into head and the loop starts over.             *)
TryEmplace_CAS(t) ==
  /\ pc[t] = "te_cas"
  /\ IF head_ = tk[t]
     THEN /\ head_' = tk[t] + 1
          /\ pc' = [pc EXCEPT ![t] = "te_construct"]
          /\ produced' = Append(produced, arg[t])
                  /\ tk' = tk
     ELSE /\ tk' = [tk EXCEPT ![t] = head_]
          /\ pc' = [pc EXCEPT ![t] = "te_loop"]
          /\ UNCHANGED <<head_, produced>>
  /\ UNCHANGED <<capacity_, tail_, slotTurn, storage, op, arg, out, ret>>
  /\ UNCHANGED <<nOps, consumed, enqueues, dequeues>>

TryEmplace_Construct(t) == Construct(t, "te_construct", "te_store")

(* slot.turn.store(turn(head) * 2 + 1, release); return true; *)
TryEmplace_Store(t) == StoreFull(t, "te_store", "true")

(* auto const prevHead = head; head = head_.load(acquire);                 *)
(* if (head == prevHead) return false;                                     *)
TryEmplace_Reload(t) ==
  /\ pc[t] = "te_reload"
  /\ IF head_ = tk[t]
     THEN /\ pc' = [pc EXCEPT ![t] = "idle"]
          /\ ret' = [ret EXCEPT ![t] = "false"]
          /\ tk' = [tk EXCEPT ![t] = 0]
          /\ arg' = [arg EXCEPT ![t] = 0]
     ELSE /\ tk' = [tk EXCEPT ![t] = head_]
          /\ pc' = [pc EXCEPT ![t] = "te_loop"]
          /\ UNCHANGED <<ret, arg>>
  /\ UNCHANGED <<progVars, op, out>>
  /\ UNCHANGED <<nOps, produced, consumed, enqueues, dequeues>>

-----------------------------------------------------------------------------
(* pop *)

(* auto const tail = tail_.fetch_add(1); *)
Pop_FetchAdd(t) ==
  /\ pc[t] = "idle"
  /\ tail_' = tail_ + 1
  /\ pc' = [pc EXCEPT ![t] = "p_wait"]
  /\ op' = [op EXCEPT ![t] = "pop"]
  /\ tk' = [tk EXCEPT ![t] = tail_]
  /\ ret' = [ret EXCEPT ![t] = "none"]
  /\ nOps' = nOps + 1
  /\ UNCHANGED <<capacity_, head_, slotTurn, storage, arg, out>>
  /\ UNCHANGED <<produced, consumed, enqueues, dequeues>>

(* while (turn(tail) * 2 + 1 != slot.turn.load(acquire)) ; *)
Pop_Wait(t) ==
  /\ pc[t] = "p_wait"
  /\ slotTurn[PopSlot(tk[t])] = PopTurn(tk[t])
  /\ pc' = [pc EXCEPT ![t] = "p_move"]
  /\ UNCHANGED <<progVars, op, tk, arg, out, ret>>
  /\ UNCHANGED <<nOps, produced, consumed, enqueues, dequeues>>

(* v = slot.move(); *)
Move(t, from, to) ==
  /\ pc[t] = from
  /\ out' = [out EXCEPT ![t] = storage[PopSlot(tk[t])]]
  /\ pc' = [pc EXCEPT ![t] = to]
  /\ UNCHANGED <<progVars, op, tk, arg, ret>>
  /\ UNCHANGED <<nOps, produced, consumed, enqueues, dequeues>>

Pop_Move(t) == Move(t, "p_move", "p_destroy")

(* slot.destroy(); *)
Destroy(t, from, to) ==
  /\ pc[t] = from
  /\ storage' = [storage EXCEPT ![PopSlot(tk[t])] = 0]
  /\ pc' = [pc EXCEPT ![t] = to]
  /\ UNCHANGED <<capacity_, head_, tail_, slotTurn, op, tk, arg, out, ret>>
  /\ UNCHANGED <<nOps, produced, consumed, enqueues, dequeues>>

Pop_Destroy(t) == Destroy(t, "p_destroy", "p_store")

(* slot.turn.store(turn(tail) * 2 + 2, release); and the return *)
StoreEmpty(t, from, result) ==
  /\ pc[t] = from
  /\ slotTurn' = [slotTurn EXCEPT ![PopSlot(tk[t])] = PopNextTurn(tk[t])]
  /\ pc' = [pc EXCEPT ![t] = "idle"]
  /\ ret' = [ret EXCEPT ![t] = result]
  /\ tk' = [tk EXCEPT ![t] = 0]
  /\ dequeues' = dequeues + 1
  /\ consumed' = [consumed EXCEPT ![tk[t]] = out[t]]
  /\ UNCHANGED <<capacity_, head_, tail_, storage, op, arg, out>>
  /\ UNCHANGED <<nOps, produced, enqueues>>

Pop_Store(t) == StoreEmpty(t, "p_store", "void")

-----------------------------------------------------------------------------
(* try_pop *)

(* auto tail = tail_.load(acquire); *)
TryPop_LoadTail(t) ==
  /\ pc[t] = "idle"
  /\ pc' = [pc EXCEPT ![t] = "tp_loop"]
  /\ op' = [op EXCEPT ![t] = "try_pop"]
  /\ tk' = [tk EXCEPT ![t] = tail_]
  /\ ret' = [ret EXCEPT ![t] = "none"]
  /\ nOps' = nOps + 1
  /\ UNCHANGED <<progVars, arg, out>>
  /\ UNCHANGED <<produced, consumed, enqueues, dequeues>>

(* The element read into v as soon as the slot's turn matches, before the *)
(* exchange on tail_ has been won.                                         *)
TryPop_CheckTurn_early(t) ==
  /\ pc[t] = "tp_loop"
  /\ pc' = [pc EXCEPT ![t] = IF slotTurn[PopSlot(tk[t])] = PopTurn(tk[t])
                             THEN "tp_cas" ELSE "tp_reload"]
  /\ out' = [out EXCEPT ![t] = IF slotTurn[PopSlot(tk[t])] = PopTurn(tk[t])
                               THEN storage[PopSlot(tk[t])] ELSE out[t]]
  /\ UNCHANGED <<progVars, op, tk, arg, ret>>
  /\ UNCHANGED <<nOps, produced, consumed, enqueues, dequeues>>

(* if (turn(tail) * 2 + 1 == slot.turn.load(acquire)) ... else ... *)
TryPop_CheckTurn(t) ==
  /\ pc[t] = "tp_loop"
  /\ pc' = [pc EXCEPT ![t] = IF slotTurn[PopSlot(tk[t])] = PopTurn(tk[t])
                             THEN "tp_cas" ELSE "tp_reload"]
  /\ UNCHANGED <<progVars, op, tk, arg, out, ret>>
  /\ UNCHANGED <<nOps, produced, consumed, enqueues, dequeues>>

(* if (tail_.compare_exchange_strong(tail, tail + 1)) *)
TryPop_CAS(t) ==
  /\ pc[t] = "tp_cas"
  /\ IF tail_ = tk[t]
     THEN /\ tail_' = tk[t] + 1
          /\ pc' = [pc EXCEPT ![t] = "tp_move"]
                  /\ tk' = tk
     ELSE /\ tk' = [tk EXCEPT ![t] = tail_]
          /\ pc' = [pc EXCEPT ![t] = "tp_loop"]
          /\ UNCHANGED tail_
  /\ UNCHANGED <<capacity_, head_, slotTurn, storage, op, arg, out, ret>>
  /\ UNCHANGED <<nOps, produced, consumed, enqueues, dequeues>>

TryPop_Move(t) == Move(t, "tp_move", "tp_destroy")

TryPop_Destroy(t) == Destroy(t, "tp_destroy", "tp_store")

(* slot.turn.store(turn(tail) * 2 + 2, release); return true; *)
TryPop_Store(t) == StoreEmpty(t, "tp_store", "true")

(* auto const prevTail = tail; tail = tail_.load(acquire);                 *)
(* if (tail == prevTail) return false;                                     *)
TryPop_Reload(t) ==
  /\ pc[t] = "tp_reload"
  /\ IF tail_ = tk[t]
     THEN /\ pc' = [pc EXCEPT ![t] = "idle"]
          /\ ret' = [ret EXCEPT ![t] = "false"]
          /\ tk' = [tk EXCEPT ![t] = 0]
     ELSE /\ tk' = [tk EXCEPT ![t] = tail_]
          /\ pc' = [pc EXCEPT ![t] = "tp_loop"]
          /\ UNCHANGED ret
  /\ UNCHANGED <<progVars, op, arg, out>>
  /\ UNCHANGED <<nOps, produced, consumed, enqueues, dequeues>>

-----------------------------------------------------------------------------
(* Any number of threads calling emplace, try_emplace, pop and try_pop in  *)
(* any interleaving, MaxOps calls in all.                                  *)

Plain == UNCHANGED <<stampVars, obs, ref, eff, life>>

Next ==
  \/ \E t \in Threads : nOps < MaxOps /\ Emplace_FetchAdd(t) /\ Plain
  \/ \E t \in Threads : Emplace_Wait(t) /\ Plain
  \/ \E t \in Threads : Emplace_Construct(t) /\ Plain
  \/ \E t \in Threads : Emplace_Store(t) /\ Plain
  \/ \E t \in Threads : nOps < MaxOps /\ TryEmplace_LoadHead(t) /\ Plain
  \/ \E t \in Threads : TryEmplace_CheckTurn(t) /\ Plain
  \/ \E t \in Threads : TryEmplace_CAS(t) /\ Plain
  \/ \E t \in Threads : TryEmplace_Construct(t) /\ Plain
  \/ \E t \in Threads : TryEmplace_Store(t) /\ Plain
  \/ \E t \in Threads : TryEmplace_Reload(t) /\ Plain
  \/ \E t \in Threads : nOps < MaxOps /\ Pop_FetchAdd(t) /\ Plain
  \/ \E t \in Threads : Pop_Wait(t) /\ Plain
  \/ \E t \in Threads : Pop_Move(t) /\ Plain
  \/ \E t \in Threads : Pop_Destroy(t) /\ Plain
  \/ \E t \in Threads : Pop_Store(t) /\ Plain
  \/ \E t \in Threads : nOps < MaxOps /\ TryPop_LoadTail(t) /\ Plain
  \/ \E t \in Threads : TryPop_CheckTurn(t) /\ Plain
  \/ \E t \in Threads : TryPop_CAS(t) /\ Plain
  \/ \E t \in Threads : TryPop_Move(t) /\ Plain
  \/ \E t \in Threads : TryPop_Destroy(t) /\ Plain
  \/ \E t \in Threads : TryPop_Store(t) /\ Plain
  \/ \E t \in Threads : TryPop_Reload(t) /\ Plain

Spec == Init /\ [][Next]_vars

(* The same program, with the real-time order of its calls recorded. *)
OrderNext ==
  \/ \E t \in Threads : nOps < MaxOps /\ Emplace_FetchAdd(t) /\ Stamp(t) /\ UNCHANGED <<obs, ref, eff, life>>
  \/ \E t \in Threads : Emplace_Wait(t) /\ Stamp(t) /\ UNCHANGED <<obs, ref, eff, life>>
  \/ \E t \in Threads : Emplace_Construct(t) /\ Stamp(t) /\ UNCHANGED <<obs, ref, eff, life>>
  \/ \E t \in Threads : Emplace_Store(t) /\ Stamp(t) /\ UNCHANGED <<obs, ref, eff, life>>
  \/ \E t \in Threads : nOps < MaxOps /\ TryEmplace_LoadHead(t) /\ Stamp(t) /\ UNCHANGED <<obs, ref, eff, life>>
  \/ \E t \in Threads : TryEmplace_CheckTurn(t) /\ Stamp(t) /\ UNCHANGED <<obs, ref, eff, life>>
  \/ \E t \in Threads : TryEmplace_CAS(t) /\ Stamp(t) /\ UNCHANGED <<obs, ref, eff, life>>
  \/ \E t \in Threads : TryEmplace_Construct(t) /\ Stamp(t) /\ UNCHANGED <<obs, ref, eff, life>>
  \/ \E t \in Threads : TryEmplace_Store(t) /\ Stamp(t) /\ UNCHANGED <<obs, ref, eff, life>>
  \/ \E t \in Threads : TryEmplace_Reload(t) /\ Stamp(t) /\ UNCHANGED <<obs, ref, eff, life>>
  \/ \E t \in Threads : nOps < MaxOps /\ Pop_FetchAdd(t) /\ Stamp(t) /\ UNCHANGED <<obs, ref, eff, life>>
  \/ \E t \in Threads : Pop_Wait(t) /\ Stamp(t) /\ UNCHANGED <<obs, ref, eff, life>>
  \/ \E t \in Threads : Pop_Move(t) /\ Stamp(t) /\ UNCHANGED <<obs, ref, eff, life>>
  \/ \E t \in Threads : Pop_Destroy(t) /\ Stamp(t) /\ UNCHANGED <<obs, ref, eff, life>>
  \/ \E t \in Threads : Pop_Store(t) /\ Stamp(t) /\ UNCHANGED <<obs, ref, eff, life>>
  \/ \E t \in Threads : nOps < MaxOps /\ TryPop_LoadTail(t) /\ Stamp(t) /\ UNCHANGED <<obs, ref, eff, life>>
  \/ \E t \in Threads : TryPop_CheckTurn(t) /\ Stamp(t) /\ UNCHANGED <<obs, ref, eff, life>>
  \/ \E t \in Threads : TryPop_CAS(t) /\ Stamp(t) /\ UNCHANGED <<obs, ref, eff, life>>
  \/ \E t \in Threads : TryPop_Move(t) /\ Stamp(t) /\ UNCHANGED <<obs, ref, eff, life>>
  \/ \E t \in Threads : TryPop_Destroy(t) /\ Stamp(t) /\ UNCHANGED <<obs, ref, eff, life>>
  \/ \E t \in Threads : TryPop_Store(t) /\ Stamp(t) /\ UNCHANGED <<obs, ref, eff, life>>
  \/ \E t \in Threads : TryPop_Reload(t) /\ Stamp(t) /\ UNCHANGED <<obs, ref, eff, life>>

OrderSpec == Init /\ [][OrderNext]_vars

(* The same program, with what each try_ call sees of the queue recorded. *)
TryNext ==
  \/ \E t \in Threads : nOps < MaxTryOps /\ Emplace_FetchAdd(t) /\ Track /\ UNCHANGED <<stampVars, ref, eff, life>>
  \/ \E t \in Threads : Emplace_Wait(t) /\ Track /\ UNCHANGED <<stampVars, ref, eff, life>>
  \/ \E t \in Threads : Emplace_Construct(t) /\ Track /\ UNCHANGED <<stampVars, ref, eff, life>>
  \/ \E t \in Threads : Emplace_Store(t) /\ Track /\ UNCHANGED <<stampVars, ref, eff, life>>
  \/ \E t \in Threads : nOps < MaxTryOps /\ TryEmplace_LoadHead(t) /\ Track /\ UNCHANGED <<stampVars, ref, eff, life>>
  \/ \E t \in Threads : TryEmplace_CheckTurn(t) /\ Track /\ UNCHANGED <<stampVars, ref, eff, life>>
  \/ \E t \in Threads : TryEmplace_CAS(t) /\ Track /\ UNCHANGED <<stampVars, ref, eff, life>>
  \/ \E t \in Threads : TryEmplace_Construct(t) /\ Track /\ UNCHANGED <<stampVars, ref, eff, life>>
  \/ \E t \in Threads : TryEmplace_Store(t) /\ Track /\ UNCHANGED <<stampVars, ref, eff, life>>
  \/ \E t \in Threads : TryEmplace_Reload(t) /\ Track /\ UNCHANGED <<stampVars, ref, eff, life>>
  \/ \E t \in Threads : nOps < MaxTryOps /\ Pop_FetchAdd(t) /\ Track /\ UNCHANGED <<stampVars, ref, eff, life>>
  \/ \E t \in Threads : Pop_Wait(t) /\ Track /\ UNCHANGED <<stampVars, ref, eff, life>>
  \/ \E t \in Threads : Pop_Move(t) /\ Track /\ UNCHANGED <<stampVars, ref, eff, life>>
  \/ \E t \in Threads : Pop_Destroy(t) /\ Track /\ UNCHANGED <<stampVars, ref, eff, life>>
  \/ \E t \in Threads : Pop_Store(t) /\ Track /\ UNCHANGED <<stampVars, ref, eff, life>>
  \/ \E t \in Threads : nOps < MaxTryOps /\ TryPop_LoadTail(t) /\ Track /\ UNCHANGED <<stampVars, ref, eff, life>>
  \/ \E t \in Threads : TryPop_CheckTurn(t) /\ Track /\ UNCHANGED <<stampVars, ref, eff, life>>
  \/ \E t \in Threads : TryPop_CAS(t) /\ Track /\ UNCHANGED <<stampVars, ref, eff, life>>
  \/ \E t \in Threads : TryPop_Move(t) /\ Track /\ UNCHANGED <<stampVars, ref, eff, life>>
  \/ \E t \in Threads : TryPop_Destroy(t) /\ Track /\ UNCHANGED <<stampVars, ref, eff, life>>
  \/ \E t \in Threads : TryPop_Store(t) /\ Track /\ UNCHANGED <<stampVars, ref, eff, life>>
  \/ \E t \in Threads : TryPop_Reload(t) /\ Track /\ UNCHANGED <<stampVars, ref, eff, life>>

TrySpec == Init /\ [][TryNext]_vars

(* Callers that invoke one call at a time, each after the previous one has *)
(* returned, beside a reference bounded FIFO sequence of the same capacity *)
(* that is given every call at its invocation.                             *)

AllIdle == \A t \in Threads : pc[t] = "idle"

Quiet == UNCHANGED <<stampVars, obs, eff, life>>

RefTryPush(t, v) ==
  IF Len(ref.q) < capacity_
  THEN [q |-> Append(ref.q, v), ret |-> "true", out |-> out[t], who |-> t]
  ELSE [q |-> ref.q, ret |-> "false", out |-> out[t], who |-> t]

RefTryPop(t) ==
  IF Len(ref.q) > 0
  THEN [q |-> Tail(ref.q), ret |-> "true", out |-> Head(ref.q), who |-> t]
  ELSE [q |-> ref.q, ret |-> "false", out |-> out[t], who |-> t]

RefPush(t, v) ==
  IF Len(ref.q) < capacity_
  THEN [q |-> Append(ref.q, v), ret |-> "void", out |-> out[t], who |-> t]
  ELSE [q |-> ref.q, ret |-> "blocked", out |-> out[t], who |-> t]

RefPop(t) ==
  IF Len(ref.q) > 0
  THEN [q |-> Tail(ref.q), ret |-> "void", out |-> Head(ref.q), who |-> t]
  ELSE [q |-> ref.q, ret |-> "blocked", out |-> out[t], who |-> t]

SeqNext ==
  \/ \E t \in Threads : AllIdle /\ nOps < MaxSeqOps /\ Emplace_FetchAdd(t) /\ ref' = RefPush(t, nOps + 1) /\ Quiet
  \/ \E t \in Threads : Emplace_Wait(t) /\ UNCHANGED ref /\ Quiet
  \/ \E t \in Threads : Emplace_Construct(t) /\ UNCHANGED ref /\ Quiet
  \/ \E t \in Threads : Emplace_Store(t) /\ UNCHANGED ref /\ Quiet
  \/ \E t \in Threads : AllIdle /\ nOps < MaxSeqOps /\ TryEmplace_LoadHead(t) /\ ref' = RefTryPush(t, nOps + 1) /\ Quiet
  \/ \E t \in Threads : TryEmplace_CheckTurn(t) /\ UNCHANGED ref /\ Quiet
  \/ \E t \in Threads : TryEmplace_CAS(t) /\ UNCHANGED ref /\ Quiet
  \/ \E t \in Threads : TryEmplace_Construct(t) /\ UNCHANGED ref /\ Quiet
  \/ \E t \in Threads : TryEmplace_Store(t) /\ UNCHANGED ref /\ Quiet
  \/ \E t \in Threads : TryEmplace_Reload(t) /\ UNCHANGED ref /\ Quiet
  \/ \E t \in Threads : AllIdle /\ nOps < MaxSeqOps /\ Pop_FetchAdd(t) /\ ref' = RefPop(t) /\ Quiet
  \/ \E t \in Threads : Pop_Wait(t) /\ UNCHANGED ref /\ Quiet
  \/ \E t \in Threads : Pop_Move(t) /\ UNCHANGED ref /\ Quiet
  \/ \E t \in Threads : Pop_Destroy(t) /\ UNCHANGED ref /\ Quiet
  \/ \E t \in Threads : Pop_Store(t) /\ UNCHANGED ref /\ Quiet
  \/ \E t \in Threads : AllIdle /\ nOps < MaxSeqOps /\ TryPop_LoadTail(t) /\ ref' = RefTryPop(t) /\ Quiet
  \/ \E t \in Threads : TryPop_CheckTurn(t) /\ UNCHANGED ref /\ Quiet
  \/ \E t \in Threads : TryPop_CAS(t) /\ UNCHANGED ref /\ Quiet
  \/ \E t \in Threads : TryPop_Move(t) /\ UNCHANGED ref /\ Quiet
  \/ \E t \in Threads : TryPop_Destroy(t) /\ UNCHANGED ref /\ Quiet
  \/ \E t \in Threads : TryPop_Store(t) /\ UNCHANGED ref /\ Quiet
  \/ \E t \in Threads : TryPop_Reload(t) /\ UNCHANGED ref /\ Quiet

SeqSpec == Init /\ [][SeqNext]_vars

(* Blocking calls only, MaxPairs enqueues and MaxPairs dequeues in all,    *)
(* every thread that can take a step of its call eventually taking it.     *)
LiveNext ==
  \/ \E t \in Threads : head_ < MaxPairs /\ Emplace_FetchAdd(t) /\ Plain
  \/ \E t \in Threads : Emplace_Wait(t) /\ Plain
  \/ \E t \in Threads : Emplace_Construct(t) /\ Plain
  \/ \E t \in Threads : Emplace_Store(t) /\ Plain
  \/ \E t \in Threads : tail_ < MaxPairs /\ Pop_FetchAdd(t) /\ Plain
  \/ \E t \in Threads : Pop_Wait(t) /\ Plain
  \/ \E t \in Threads : Pop_Move(t) /\ Plain
  \/ \E t \in Threads : Pop_Destroy(t) /\ Plain
  \/ \E t \in Threads : Pop_Store(t) /\ Plain

Running(t) ==
  \/ Emplace_Wait(t) \/ Emplace_Construct(t) \/ Emplace_Store(t)
  \/ Pop_Wait(t) \/ Pop_Move(t) \/ Pop_Destroy(t) \/ Pop_Store(t)

LiveSpec ==
  Init /\ [][LiveNext]_vars /\ \A t \in Threads : WF_vars(Running(t) /\ Plain)

-----------------------------------------------------------------------------
(* Properties of the ticket protocol, under Spec. *)

Returned == {k \in Tickets : consumed[k] # -1}

(* C1: the dequeue that claimed tail ticket k returns exactly the value    *)
(* passed to the enqueue that claimed head ticket k, for every k and under *)
(* every interleaving of emplace, try_emplace, pop and try_pop.            *)
TicketFifo ==
  \A k \in Returned : k < Len(produced) /\ consumed[k] = produced[k + 1]

(* Ticket 1 has been dequeued while the dequeue of ticket 0 is still in    *)
(* progress.                                                               *)
TicketFifoWitness ==
  /\ 1 \in Returned
  /\ 0 \notin Returned
  /\ \E t \in Threads : pc[t] \in ClaimedPcs /\ op[t] \in {"pop", "try_pop"} /\ tk[t] = 0

CountIn(f, S, v) == Cardinality({k \in S : f[k] = v})

(* C2: once all calls have returned and as many dequeues have been         *)
(* performed as values were enqueued, the multiset of dequeued values is   *)
(* the multiset of enqueued values: nothing lost, duplicated or invented.  *)
Conservation ==
  (AllIdle /\ dequeues = Len(produced)) =>
    \A v \in 0..MaxCalls :
      CountIn(consumed, Returned, v) = CountIn(produced, DOMAIN produced, v)

ConservationWitness ==
  AllIdle /\ dequeues = Len(produced) /\ dequeues = 2

(* C4 as stated: head >= tail in every reachable state. *)
HeadGeTail == head_ >= tail_

(* C4, amended: tail exceeds head by at most the number of blocking pops   *)
(* that hold a ticket and still wait for their slot's turn.                *)
WaitingPops == {t \in Threads : pc[t] = "p_wait"}

TailBoundedByWaitingPops == tail_ - head_ <= Cardinality(WaitingPops)

TailBoundedWitness ==
  /\ tail_ = head_ + 1
  /\ \E t \in Threads : pc[t] = "tp_move"

OddSlots == {i \in Slots : slotTurn[i] % 2 = 1}

(* C5: the number of slots whose turn is odd equals the stores to 2L+1     *)
(* performed minus the stores to 2L+2 performed, and lies in 0..capacity.  *)
ParityOccupancy ==
  /\ Cardinality(OddSlots) = enqueues - dequeues
  /\ 0 <= enqueues - dequeues
  /\ enqueues - dequeues <= capacity_

(* A full ring on its second lap. *)
ParityOccupancyWitness ==
  /\ enqueues - dequeues = capacity_
  /\ dequeues >= 1
  /\ Cardinality(OddSlots) = capacity_

-----------------------------------------------------------------------------
(* FIFO order among completed calls, under OrderSpec. *)

Claimed == 0..(Len(produced) - 1)

(* The enqueue of head ticket a returned before that of ticket b was       *)
(* invoked; the same for the dequeues of tail tickets c and d.             *)
EnqPrecedes(a, b) == enqRet[a] > 0 /\ enqRet[a] <= enqInv[b]
DeqPrecedes(c, d) == deqRet[c] > 0 /\ deqRet[c] <= deqInv[d]

(* Every enqueue returned before the next one was invoked, and every       *)
(* dequeue likewise: one producer and one consumer.                        *)
OneProducerOneConsumer ==
  /\ \A a, b \in Claimed : a < b => EnqPrecedes(a, b)
  /\ \A c, d \in 0..(tail_ - 1) : c < d => DeqPrecedes(c, d)

(* C3: if the enqueue of x returned before the enqueue of y was invoked    *)
(* and dequeue d1 returned before dequeue d2 was invoked, then not both d1 *)
(* returned y and d2 returned x.  With one producer and one consumer the   *)
(* consumer receives the producer's values in the producer's order (call   *)
(* number n enqueues the value n).                                         *)
FifoAmongCompleted ==
  /\ \A a, b \in Claimed : \A c, d \in Returned :
       (a # b /\ EnqPrecedes(a, b) /\ DeqPrecedes(c, d)) =>
         ~(consumed[c] = produced[b + 1] /\ consumed[d] = produced[a + 1])
  /\ OneProducerOneConsumer =>
       \A c, d \in Returned :
         /\ c < Len(produced) /\ consumed[c] = produced[c + 1]
         /\ c < d => consumed[c] < consumed[d]

(* Two enqueues one after the other and two dequeues one after the other,  *)
(* all returned.                                                           *)
FifoAmongCompletedWitness ==
  /\ EnqPrecedes(0, 1) /\ enqRet[1] > 0
  /\ DeqPrecedes(0, 1) /\ deqRet[1] > 0
  /\ Returned = {0, 1}

-----------------------------------------------------------------------------
(* What a failed or successful try_ call has seen, under TrySpec. *)

ReturnedFrom(t, o, r) == pc[t] = "idle" /\ op[t] = o /\ ret[t] = r

(* C6 as stated: try_emplace returns false only if the queue held capacity *)
(* elements at some moment between its invocation and its return.          *)
TryEmplaceFailsOnlyIfFull ==
  \A t \in Threads : ReturnedFrom(t, "try_emplace", "false") => obs[t].ever

(* C6, amended: try_emplace returns false only if at some moment of the    *)
(* call the queue was full or another call held a claimed ticket whose     *)
(* turn store was still to come.                                           *)
TryEmplaceFailsOnlyIfFullOrBusy ==
  \A t \in Threads : ReturnedFrom(t, "try_emplace", "false") => obs[t].busy

(* A try_emplace that failed although the queue was never full during it.  *)
TryEmplaceFailsWitness ==
  \E t \in Threads :
    ReturnedFrom(t, "try_emplace", "false") /\ ~obs[t].ever /\ obs[t].busy

(* C7 as stated: try_pop returns false only if the queue held no element   *)
(* at some moment between its invocation and its return.                   *)
TryPopFailsOnlyIfEmpty ==
  \A t \in Threads : ReturnedFrom(t, "try_pop", "false") => obs[t].ever

(* C7, amended: try_pop returns false only if at some moment of the call   *)
(* the queue was empty or another call held a claimed ticket whose turn    *)
(* store was still to come.                                                *)
TryPopFailsOnlyIfEmptyOrBusy ==
  \A t \in Threads : ReturnedFrom(t, "try_pop", "false") => obs[t].busy

(* A try_pop that failed although the queue was never empty during it.     *)
TryPopFailsWitness ==
  \E t \in Threads :
    ReturnedFrom(t, "try_pop", "false") /\ ~obs[t].ever /\ obs[t].busy

(* C8: a try_emplace during the whole of which every turn is odd does not  *)
(* claim a ticket and does not return true, and a try_pop during the whole *)
(* of which every turn is even does neither.                               *)
TryFailsWhenFullOrEmptyThroughout ==
  \A t \in Threads :
    (op[t] \in {"try_emplace", "try_pop"} /\ obs[t].always) =>
      /\ pc[t] \in {"te_loop", "te_reload", "tp_loop", "tp_reload", "idle"}
      /\ ret[t] # "true"

(* A try_emplace has failed on a queue that was full throughout and a      *)
(* try_pop on one that was empty throughout.                               *)
TryFailsThroughoutWitness ==
  \E t, u \in Threads :
    /\ ReturnedFrom(t, "try_emplace", "false") /\ obs[t].always
    /\ ReturnedFrom(u, "try_pop", "false") /\ obs[u].always

-----------------------------------------------------------------------------
(* Sequential callers against the reference FIFO, under SeqSpec. *)

(* The elements of the ring from the oldest ticket not dequeued on. *)
RingContents == [i \in 1..(head_ - tail_) |-> storage[idx(tail_ + i - 1)]]

(* C9: with calls invoked one at a time the queue is the reference bounded *)
(* FIFO sequence: every call returns what the reference returns (true and  *)
(* false of try_emplace and try_pop, the oldest element in the caller's    *)
(* v), a call the reference cannot serve does not return, and between      *)
(* calls the ring holds the reference's elements in its order.             *)
RefinesBoundedFifo ==
  /\ (AllIdle /\ ref.who # 0) =>
       /\ ret[ref.who] = ref.ret
       /\ out[ref.who] = ref.out
       /\ RingContents = ref.q
  /\ ref.ret = "blocked" => pc[ref.who] \in {"e_wait", "p_wait"}

(* Capacity 1 on its second lap: an enqueue, a dequeue, an enqueue, and a  *)
(* try_emplace that found the slot taken.                                  *)
RefinesBoundedFifoWitness ==
  /\ capacity_ = 1 /\ AllIdle
  /\ head_ = 2 /\ tail_ = 1
  /\ ref.who # 0 /\ op[ref.who] = "try_emplace" /\ ret[ref.who] = "false"
  /\ Len(ref.q) = 1

-----------------------------------------------------------------------------
(* Termination of balanced blocking calls, under LiveSpec. *)

-----------------------------------------------------------------------------
(* The try calls never wait, under Spec. *)

TryPcs ==
  {"te_loop", "te_cas", "te_reload", "te_construct", "te_store",
   "tp_loop", "tp_cas", "tp_reload", "tp_move", "tp_destroy", "tp_store"}

(* Thread t took the step. *)
Stepped(t) == pc'[t] # pc[t]

(* The steps of thread t inside a try call. *)
TryStep(t) ==
  \/ TryEmplace_CheckTurn(t) \/ TryEmplace_CAS(t) \/ TryEmplace_Reload(t)
  \/ TryEmplace_Construct(t) \/ TryEmplace_Store(t)
  \/ TryPop_CheckTurn(t) \/ TryPop_CAS(t) \/ TryPop_Reload(t)
  \/ TryPop_Move(t) \/ TryPop_Destroy(t) \/ TryPop_Store(t)

(* The most steps a try call at position p can still take when no other    *)
(* thread runs; fresh says that the counter (head_ for try_emplace, tail_  *)
(* for try_pop) still has the value the call last read.                    *)
StepsLeft(p, fresh) ==
  CASE p = "idle" -> 0
    [] p = "te_store" -> 1
    [] p = "te_construct" -> 2
    [] p = "te_cas" -> IF fresh THEN 3 ELSE 5
    [] p = "te_reload" -> IF fresh THEN 1 ELSE 5
    [] p = "te_loop" -> IF fresh THEN 4 ELSE 6
    [] p = "tp_store" -> 1
    [] p = "tp_destroy" -> 2
    [] p = "tp_move" -> 3
    [] p = "tp_cas" -> IF fresh THEN 4 ELSE 6
    [] p = "tp_reload" -> IF fresh THEN 1 ELSE 6
    [] p = "tp_loop" -> IF fresh THEN 5 ELSE 7
    [] OTHER -> 0

(* C11: a try call never waits for another thread: in every state of the   *)
(* call it has a step it can take, each of its steps brings it closer to   *)
(* its return (at most 5 steps from the invocation when it runs alone, at  *)
(* most 7 from any state), and it starts its loop over only when head_     *)
(* (try_emplace) or tail_ (try_pop) no longer has the value the call last  *)
(* read, which only another thread can have changed.                       *)
TryNeverWaits ==
  [][\A t \in Threads :
       /\ pc[t] \in TryPcs => ENABLED TryStep(t)
       /\ (Stepped(t) /\ pc[t] \in TryPcs) =>
            StepsLeft(pc'[t], IF op[t] = "try_emplace" THEN head_' = tk'[t]
                                                      ELSE tail_' = tk'[t])
              < StepsLeft(pc[t], IF op[t] = "try_emplace" THEN head_ = tk[t]
                                                        ELSE tail_ = tk[t])
       /\ (Stepped(t) /\ pc[t] = "idle" /\ pc'[t] \in TryPcs) =>
            /\ StepsLeft(pc'[t], TRUE) <= 5
            /\ IF op'[t] = "try_emplace" THEN head_' = tk'[t]
                                         ELSE tail_' = tk'[t]
       /\ (pc[t] \in {"te_cas", "te_reload"} /\ pc'[t] = "te_loop") =>
            head_ # tk[t] /\ tk'[t] = head_
       /\ (pc[t] \in {"tp_cas", "tp_reload"} /\ pc'[t] = "tp_loop") =>
            tail_ # tk[t] /\ tk'[t] = tail_]_vars

(* A try_emplace that lost its exchange to another thread's call and is    *)
(* back at the head of its loop with the new head_.                        *)
TryNeverWaitsWitness ==
  \E t \in Threads :
    /\ pc[t] = "te_loop" /\ op[t] = "try_emplace"
    /\ tk[t] = head_ /\ tk[t] > 0
    /\ \E u \in Threads \ {t} : pc[u] \in {"e_construct", "te_construct"}


-----------------------------------------------------------------------------
(* What a failed try call leaves behind.  FrameSpec is Spec with the       *)
(* writes of every try call recorded, MaxFrameOps calls in all.            *)

Still == UNCHANGED <<stampVars, obs, ref, life>>

FrameNext ==
  \/ \E t \in Threads : nOps < MaxFrameOps /\ Emplace_FetchAdd(t) /\ Effect(t) /\ Still
  \/ \E t \in Threads : Emplace_Wait(t) /\ Effect(t) /\ Still
  \/ \E t \in Threads : Emplace_Construct(t) /\ Effect(t) /\ Still
  \/ \E t \in Threads : Emplace_Store(t) /\ Effect(t) /\ Still
  \/ \E t \in Threads : nOps < MaxFrameOps /\ TryEmplace_LoadHead(t) /\ Effect(t) /\ Still
  \/ \E t \in Threads : TryEmplace_CheckTurn(t) /\ Effect(t) /\ Still
  \/ \E t \in Threads : TryEmplace_CAS(t) /\ Effect(t) /\ Still
  \/ \E t \in Threads : TryEmplace_Construct(t) /\ Effect(t) /\ Still
  \/ \E t \in Threads : TryEmplace_Store(t) /\ Effect(t) /\ Still
  \/ \E t \in Threads : TryEmplace_Reload(t) /\ Effect(t) /\ Still
  \/ \E t \in Threads : nOps < MaxFrameOps /\ Pop_FetchAdd(t) /\ Effect(t) /\ Still
  \/ \E t \in Threads : Pop_Wait(t) /\ Effect(t) /\ Still
  \/ \E t \in Threads : Pop_Move(t) /\ Effect(t) /\ Still
  \/ \E t \in Threads : Pop_Destroy(t) /\ Effect(t) /\ Still
  \/ \E t \in Threads : Pop_Store(t) /\ Effect(t) /\ Still
  \/ \E t \in Threads : nOps < MaxFrameOps /\ TryPop_LoadTail(t) /\ Effect(t) /\ Still
  \/ \E t \in Threads : TryPop_CheckTurn(t) /\ Effect(t) /\ Still
  \/ \E t \in Threads : TryPop_CAS(t) /\ Effect(t) /\ Still
  \/ \E t \in Threads : TryPop_Move(t) /\ Effect(t) /\ Still
  \/ \E t \in Threads : TryPop_Destroy(t) /\ Effect(t) /\ Still
  \/ \E t \in Threads : TryPop_Store(t) /\ Effect(t) /\ Still
  \/ \E t \in Threads : TryPop_Reload(t) /\ Effect(t) /\ Still

FrameSpec == Init /\ [][FrameNext]_vars

(* C12: a try_emplace or try_pop that has returned false has written       *)
(* nothing between its invocation and its return: none of its steps        *)
(* changed head_, tail_, a slot's turn or a slot's storage (so it          *)
(* constructed and destroyed nothing), and the caller's v of a failed      *)
(* try_pop still has the value it had at the invocation.                   *)
FailedTryChangesNothing ==
  \A t \in Threads :
    (ReturnedFrom(t, "try_emplace", "false") \/ ReturnedFrom(t, "try_pop", "false")) =>
      /\ ~eff[t].wrote
      /\ out[t] = eff[t].out0

(* A try_pop that returned false on the emptied queue, its v still holding *)
(* the element of the thread's earlier dequeue, while another thread's     *)
(* try_emplace has returned false as well.                                 *)
FailedTryChangesNothingWitness ==
  \E t, u \in Threads :
    /\ ReturnedFrom(t, "try_pop", "false")
    /\ out[t] > 0 /\ eff[t].out0 = out[t]
    /\ dequeues >= 1 /\ head_ = tail_
    /\ ReturnedFrom(u, "try_emplace", "false")


-----------------------------------------------------------------------------
(* The life of a queue object: constructor, calls, destructor.             *)

(* if (capacity_ < 1) throw std::invalid_argument("capacity < 1"); *)
InvalidCapacity_negative(c) == c < 0

InvalidCapacity(c) == c < 1

(* Slot::~Slot: if (turn & 1) destroy(); *)
SlotDestroys_used(i) == slotTurn[i] # 0

SlotDestroys(i) == slotTurn[i] % 2 = 1

(* Before the constructor: no queue object, no slots. *)
LifeInit ==
  /\ capacity_ = 0
  /\ head_ = 0
  /\ tail_ = 0
  /\ slotTurn = <<>>
  /\ storage = <<>>
  /\ pc = [t \in Threads |-> "idle"]
  /\ op = [t \in Threads |-> "none"]
  /\ tk = [t \in Threads |-> 0]
  /\ arg = [t \in Threads |-> 0]
  /\ out = [t \in Threads |-> 0]
  /\ ret = [t \in Threads |-> "none"]
  /\ nOps = 0
  /\ produced = <<>>
  /\ consumed = [k \in Tickets |-> -1]
  /\ enqueues = 0
  /\ dequeues = 0
  /\ enqClock = 0
  /\ deqClock = 0
  /\ inv = [t \in Threads |-> 0]
  /\ enqInv = [k \in Tickets |-> 0]
  /\ enqRet = [k \in Tickets |-> 0]
  /\ deqInv = [k \in Tickets |-> 0]
  /\ deqRet = [k \in Tickets |-> 0]
  /\ obs = [t \in Threads |-> NoObs]
  /\ ref = [q |-> <<>>, ret |-> "none", out |-> 0, who |-> 0]
  /\ eff = [t \in Threads |-> NoEffect]
  /\ life = [state |-> "none", requested |-> 0,
             constructions |-> 0, destructions |-> 0, misuse |-> FALSE]

(* MPMCQueue(capacity): throws invalid_argument for a capacity below 1 and *)
(* bad_alloc when malloc returns nullptr (allocated = FALSE), in both      *)
(* cases leaving no object; otherwise head_ and tail_ are 0 and every slot *)
(* is a fresh Slot, turn 0 and nothing constructed in its storage.         *)
Constructor(c, allocated) ==
  /\ life.state = "none"
  /\ IF InvalidCapacity(c)
     THEN /\ life' = [life EXCEPT !.state = "invalid_argument", !.requested = c]
          /\ UNCHANGED progVars
     ELSE IF ~allocated
     THEN /\ life' = [life EXCEPT !.state = "bad_alloc", !.requested = c]
          /\ UNCHANGED progVars
     ELSE /\ life' = [life EXCEPT !.state = "live", !.requested = c]
          /\ capacity_' = c
          /\ head_' = 0
          /\ tail_' = 0
          /\ slotTurn' = [i \in 0..(c - 1) |-> 0]
          /\ storage' = [i \in 0..(c - 1) |-> 0]
  /\ UNCHANGED <<threadVars, histVars, stampVars, obs, ref, eff>>

(* ~MPMCQueue, called when no call is in progress: every slot whose turn   *)
(* is odd destroys the element in its storage; then the buffer is freed.   *)
Destructor ==
  /\ life.state = "live"
  /\ AllIdle
  /\ storage' = [i \in Slots |-> IF SlotDestroys(i) THEN 0 ELSE storage[i]]
  /\ life' = [life EXCEPT
       !.state = "destroyed",
       !.destructions = @ + Cardinality({i \in Slots : SlotDestroys(i)}),
       !.misuse = @ \/ \E i \in Slots : SlotDestroys(i) /\ storage[i] = 0]
  /\ UNCHANGED <<capacity_, head_, tail_, slotTurn>>
  /\ UNCHANGED <<threadVars, histVars, stampVars, obs, ref, eff>>

(* The element constructions and destructions of the step of thread t: a   *)
(* construction into storage that holds a live element, or a destruction   *)
(* of storage that holds none, is recorded as misuse.                      *)
Lifetime(t) ==
  life' =
    IF pc[t] \in {"e_construct", "te_construct"}
    THEN [life EXCEPT !.constructions = @ + 1,
                      !.misuse = @ \/ storage[idx(tk[t])] # 0]
    ELSE IF pc[t] \in {"p_destroy", "tp_destroy"}
    THEN [life EXCEPT !.destructions = @ + 1,
                      !.misuse = @ \/ storage[idx(tk[t])] = 0]
    ELSE life

Alive == life.state = "live" /\ UNCHANGED <<stampVars, obs, ref, eff>>

LifeNext ==
  \/ \E c \in 0..MaxCapacity, allocated \in BOOLEAN : Constructor(c, allocated)
  \/ Destructor
  \/ \E t \in Threads : nOps < MaxLifeOps /\ Emplace_FetchAdd(t) /\ Lifetime(t) /\ Alive
  \/ \E t \in Threads : Emplace_Wait(t) /\ Lifetime(t) /\ Alive
  \/ \E t \in Threads : Emplace_Construct(t) /\ Lifetime(t) /\ Alive
  \/ \E t \in Threads : Emplace_Store(t) /\ Lifetime(t) /\ Alive
  \/ \E t \in Threads : nOps < MaxLifeOps /\ TryEmplace_LoadHead(t) /\ Lifetime(t) /\ Alive
  \/ \E t \in Threads : TryEmplace_CheckTurn(t) /\ Lifetime(t) /\ Alive
  \/ \E t \in Threads : TryEmplace_CAS(t) /\ Lifetime(t) /\ Alive
  \/ \E t \in Threads : TryEmplace_Construct(t) /\ Lifetime(t) /\ Alive
  \/ \E t \in Threads : TryEmplace_Store(t) /\ Lifetime(t) /\ Alive
  \/ \E t \in Threads : TryEmplace_Reload(t) /\ Lifetime(t) /\ Alive
  \/ \E t \in Threads : nOps < MaxLifeOps /\ Pop_FetchAdd(t) /\ Lifetime(t) /\ Alive
  \/ \E t \in Threads : Pop_Wait(t) /\ Lifetime(t) /\ Alive
  \/ \E t \in Threads : Pop_Move(t) /\ Lifetime(t) /\ Alive
  \/ \E t \in Threads : Pop_Destroy(t) /\ Lifetime(t) /\ Alive
  \/ \E t \in Threads : Pop_Store(t) /\ Lifetime(t) /\ Alive
  \/ \E t \in Threads : nOps < MaxLifeOps /\ TryPop_LoadTail(t) /\ Lifetime(t) /\ Alive
  \/ \E t \in Threads : TryPop_CheckTurn(t) /\ Lifetime(t) /\ Alive
  \/ \E t \in Threads : TryPop_CAS(t) /\ Lifetime(t) /\ Alive
  \/ \E t \in Threads : TryPop_Move(t) /\ Lifetime(t) /\ Alive
  \/ \E t \in Threads : TryPop_Destroy(t) /\ Lifetime(t) /\ Alive
  \/ \E t \in Threads : TryPop_Store(t) /\ Lifetime(t) /\ Alive
  \/ \E t \in Threads : TryPop_Reload(t) /\ Lifetime(t) /\ Alive

LifeSpec == LifeInit /\ [][LifeNext]_vars


(* C13: every enqueue that has stored its turn made exactly one            *)
(* construction and every dequeue that has stored its turn exactly one     *)
(* destruction (a call between its element operation and its turn store   *)
(* has made its one already); the destructor of a quiescent queue destroys *)
(* exactly the elements of the slots whose turn is odd; no construction    *)
(* goes into storage holding a live element and no destruction hits        *)
(* storage holding none; the live elements are the constructions not yet   *)
(* destroyed, and none is left once the queue is destroyed.                *)
ElementsPaired ==
  /\ ~life.misuse
  /\ life.constructions - life.destructions
       = Cardinality({i \in DOMAIN storage : storage[i] # 0})
  /\ life.constructions
       = enqueues + Cardinality({t \in Threads : pc[t] \in {"e_store", "te_store"}})
  /\ life.state = "live" =>
       life.destructions
         = dequeues + Cardinality({t \in Threads : pc[t] \in {"p_store", "tp_store"}})
  /\ life.state = "destroyed" =>
       /\ life.destructions
            = dequeues + Cardinality({i \in DOMAIN slotTurn : slotTurn[i] % 2 = 1})
       /\ life.constructions = life.destructions
       /\ \A i \in DOMAIN storage : storage[i] = 0

(* A queue destroyed after two enqueues and a dequeue: the dequeue         *)
(* destroyed one element, the destructor the other.                        *)
ElementsPairedWitness ==
  /\ life.state = "destroyed"
  /\ enqueues = 2 /\ dequeues = 1
  /\ life.constructions = 2 /\ life.destructions = 2


(* C14: the constructor called with capacity 0 throws invalid_argument and *)
(* leaves no queue (no slots, no call possible); called with a capacity of *)
(* at least 1 it yields, unless the allocation fails, a queue of that      *)
(* capacity with head_ = 0, tail_ = 0, every slot's turn 0 and no element, *)
(* on which a first try_pop returns false and a first try_emplace true.    *)
CapacityChecked ==
  /\ life.state = "invalid_argument" <=> (life.state # "none" /\ life.requested = 0)
  /\ life.state \in {"invalid_argument", "bad_alloc"} =>
       /\ capacity_ = 0 /\ DOMAIN slotTurn = {} /\ DOMAIN storage = {}
       /\ nOps = 0 /\ AllIdle
  /\ life.state \in {"live", "destroyed"} =>
       /\ life.requested >= 1
       /\ capacity_ = life.requested
       /\ DOMAIN slotTurn = 0..(capacity_ - 1)
       /\ DOMAIN storage = 0..(capacity_ - 1)
  /\ (life.state = "live" /\ nOps = 0) =>
       /\ head_ = 0 /\ tail_ = 0
       /\ \A i \in 0..(capacity_ - 1) : slotTurn[i] = 0 /\ storage[i] = 0
  /\ nOps = 1 =>
       \A t \in Threads :
         /\ (pc[t] = "idle" /\ op[t] = "try_pop") =>
              ret[t] = "false" /\ head_ = 0 /\ tail_ = 0
         /\ (pc[t] = "idle" /\ op[t] = "try_emplace") =>
              ret[t] = "true" /\ head_ = 1 /\ tail_ = 0

(* The constructor has thrown invalid_argument for capacity 0. *)
CapacityCheckedWitness ==
  /\ life.state = "invalid_argument"
  /\ life.requested = 0
  /\ capacity_ = 0


-----------------------------------------------------------------------------
(* The size and empty observers, under Spec.                               *)

(* size(): head_ - tail_, both loaded while nothing changes them. *)
size == head_ - tail_

(* empty(): whether that difference is zero. *)
empty == size = 0

(* C15: whenever no call is in progress, size() equals the number of       *)
(* elements stored in the slots, which is the number of enqueues that      *)
(* have completed minus the number of dequeues that have completed, and    *)
(* empty() is true exactly when no element is stored.                      *)
SizeWhenQuiescent ==
  AllIdle =>
    /\ size = Cardinality({i \in Slots : storage[i] # 0})
    /\ size = enqueues - dequeues
    /\ size \in 0..capacity_
    /\ empty <=> (\A i \in Slots : storage[i] = 0)

(* Three enqueues and a dequeue have returned on a queue of capacity 2:    *)
(* size() is 2, empty() false.                                             *)
SizeWhenQuiescentWitness ==
  /\ AllIdle
  /\ capacity_ = 2 /\ enqueues = 3 /\ dequeues = 1
  /\ size = 2 /\ ~empty


-----------------------------------------------------------------------------
(* The turn protocol of a slot, under Spec.                                *)

(* C16: every write to a slot's turn raises it by exactly one: the         *)
(* enqueue of ticket h stores 2 * (h div capacity) + 1 and finds the turn  *)
(* at 2 * (h div capacity), the dequeue of ticket t stores                 *)
(* 2 * (t div capacity) + 2 and finds it at 2 * (t div capacity) + 1; no   *)
(* other step writes a turn, so a turn never decreases and never skips a   *)
(* value.                                                                  *)
TurnStepsByOne ==
  [][/\ \A i \in Slots : slotTurn'[i] \in {slotTurn[i], slotTurn[i] + 1}
     /\ \A t \in Threads :
          LET i == tk[t] % capacity_
              L == tk[t] \div capacity_
          IN /\ (Stepped(t) /\ pc[t] \in {"e_store", "te_store"}) =>
                  slotTurn[i] = 2 * L /\ slotTurn'[i] = 2 * L + 1
             /\ (Stepped(t) /\ pc[t] \in {"p_store", "tp_store"}) =>
                  slotTurn[i] = 2 * L + 1 /\ slotTurn'[i] = 2 * L + 2
     /\ slotTurn' # slotTurn =>
          \E t \in Threads :
            Stepped(t) /\ pc[t] \in {"e_store", "te_store", "p_store", "tp_store"}]_vars

(* A slot on its second lap: its turn has gone 0, 1, 2, 3. *)
TurnStepsByOneWitness ==
  \E i \in Slots : slotTurn[i] = 3 /\ storage[i] # 0

(* The positions of a call between leaving its wait loop or winning its    *)
(* compare-exchange and storing the slot's turn.                           *)
OwnerPcs ==
  {"e_construct", "e_store", "te_construct", "te_store",
   "p_move", "p_destroy", "p_store", "tp_move", "tp_destroy", "tp_store"}

Owns(t, i) == pc[t] \in OwnerPcs /\ tk[t] % capacity_ = i

(* C17: at most one thread at a time is between leaving its wait loop or   *)
(* winning its compare-exchange and storing the turn of one and the same   *)
(* slot.                                                                   *)
OneOwnerPerSlot ==
  \A i \in Slots : Cardinality({t \in Threads : Owns(t, i)}) <= 1

(* A slot owned by one thread while another thread's blocking call holds a *)
(* ticket for the same slot and waits.                                     *)
OneOwnerPerSlotWitness ==
  \E i \in Slots : \E t, u \in Threads :
    /\ Owns(t, i)
    /\ pc[u] \in {"e_wait", "p_wait"} /\ tk[u] % capacity_ = i


-----------------------------------------------------------------------------
(* The order of the phases of a ticket, under Spec.                        *)

(* The enqueue holding head ticket k has stored its turn and returned. *)
EnqDone(k) ==
  /\ k < head_
  /\ ~\E t \in Threads :
        /\ pc[t] \in {"e_wait", "e_construct", "e_store", "te_construct", "te_store"}
        /\ tk[t] = k

(* The dequeue holding tail ticket k has stored its turn and returned. *)
DeqDone(k) ==
  /\ k < tail_
  /\ ~\E t \in Threads :
        /\ pc[t] \in {"p_wait", "p_move", "p_destroy", "p_store",
                      "tp_move", "tp_destroy", "tp_store"}
        /\ tk[t] = k

(* C18: a dequeue holding ticket k is at or past its move only when the    *)
(* enqueue of ticket k has constructed the element and stored its turn,    *)
(* and it moves out exactly that element; an enqueue holding ticket        *)
(* k >= capacity is at or past its construction only when the dequeue of   *)
(* ticket k - capacity has moved the old element out, destroyed it and     *)
(* stored its turn; hence an enqueue of ticket k >= capacity has returned  *)
(* only if the dequeue of ticket k - capacity has, and a dequeue of ticket *)
(* k has returned only if the enqueue of ticket k has.                     *)
PhasesOrdered ==
  /\ \A t \in Threads :
       /\ pc[t] \in {"p_move", "p_destroy", "p_store", "tp_move", "tp_destroy", "tp_store"} =>
            /\ EnqDone(tk[t])
            /\ pc[t] \in {"p_move", "tp_move"} =>
                 storage[tk[t] % capacity_] = produced[tk[t] + 1]
       /\ (pc[t] \in {"e_construct", "e_store", "te_construct", "te_store"}
             /\ tk[t] >= capacity_) =>
            /\ DeqDone(tk[t] - capacity_)
            /\ consumed[tk[t] - capacity_] = produced[tk[t] - capacity_ + 1]
            /\ pc[t] \in {"e_construct", "te_construct"} =>
                 storage[tk[t] % capacity_] = 0
  /\ \A k \in Tickets :
       /\ (k >= capacity_ /\ EnqDone(k)) => DeqDone(k - capacity_)
       /\ DeqDone(k) => EnqDone(k)

(* An enqueue on the second lap of its slot is constructing its element    *)
(* while the blocking dequeue holding the same ticket waits for it.        *)
PhasesOrderedWitness ==
  \E t, u \in Threads :
    /\ pc[t] = "e_construct" /\ tk[t] >= capacity_
    /\ pc[u] = "p_wait" /\ tk[u] = tk[t]


-----------------------------------------------------------------------------
(* Occupancy of a slot against the parity of its turn, under Spec.         *)

(* C19 as stated: in every reachable state a slot holds a constructed, not *)
(* yet destroyed element if and only if its turn is odd.                   *)
LiveIffOdd ==
  \A i \in Slots : storage[i] # 0 <=> slotTurn[i] % 2 = 1

(* Thread t has performed the element operation of its call on slot i and  *)
(* not yet stored the slot's turn.                                         *)
BeforeStore(t, i) ==
  /\ pc[t] \in {"e_store", "te_store", "p_store", "tp_store"}
  /\ tk[t] % capacity_ = i

(* C19: a slot holds a constructed, not yet destroyed element if and only  *)
(* if its turn is odd, except while the slot's owner is between its        *)
(* element operation and its turn store: after a construction the element  *)
(* is live under a still even turn, after a destruction the storage is     *)
(* dead under a still odd turn.  In particular the two agree for every     *)
(* slot whenever no call is in progress.                                   *)
LiveIffOddUnlessBeforeStore ==
  \A i \in Slots :
    storage[i] # 0 <=>
      (slotTurn[i] % 2 = 1) # (\E t \in Threads : BeforeStore(t, i))

(* One slot live under an even turn (enqueue before its store) and another *)
(* dead under an odd turn (dequeue before its store).                      *)
LiveIffOddWitness ==
  \E i, j \in Slots :
    /\ storage[i] # 0 /\ slotTurn[i] % 2 = 0
    /\ storage[j] = 0 /\ slotTurn[j] % 2 = 1


-----------------------------------------------------------------------------
(* A try call after its winning compare-exchange, under Spec.              *)

(* C20: from the moment a try_emplace wins its compare-exchange on head_   *)
(* for ticket k until it stores the next turn, the turn of slot            *)
(* k mod capacity is 2 * (k div capacity), and the slot holds no element   *)
(* when the call constructs; from the moment a try_pop wins its            *)
(* compare-exchange on tail_ for ticket k until it stores the next turn,   *)
(* the slot's turn is 2 * (k div capacity) + 1, and the slot holds the     *)
(* element of the enqueue of ticket k when the call moves it out; blocking *)
(* emplace and pop calls run on the same queue.                            *)
TryWinnerOwnsSlot ==
  \A t \in Threads :
    LET i == tk[t] % capacity_
        L == tk[t] \div capacity_
    IN /\ (pc[t] = "te_cas" /\ head_ = tk[t]) => slotTurn[i] = 2 * L
       /\ pc[t] \in {"te_construct", "te_store"} => slotTurn[i] = 2 * L
       /\ pc[t] = "te_construct" => storage[i] = 0
       /\ (pc[t] = "tp_cas" /\ tail_ = tk[t]) => slotTurn[i] = 2 * L + 1
       /\ pc[t] \in {"tp_move", "tp_destroy", "tp_store"} => slotTurn[i] = 2 * L + 1
       /\ pc[t] = "tp_move" => storage[i] # 0 /\ storage[i] = produced[tk[t] + 1]

(* A try_pop that has won its exchange and is about to move the element    *)
(* out, while a blocking emplace holding the next ticket of the same slot  *)
(* waits for the slot.                                                     *)
TryWinnerOwnsSlotWitness ==
  \E t, u \in Threads :
    /\ pc[t] = "tp_move"
    /\ pc[u] = "e_wait" /\ tk[u] = tk[t] + capacity_

=============================================================================
